---------------------------- MODULE Spec2Model ----------------------------
(*************************************************************************)
(* Model of the transformer functions of                                 *)
(* automl/10.auto-ml-multi-output-example.ipynb:                         *)
(*   multi_output_transform_x_y, multi_output_transformer_x,             *)
(*   multi_output_transform_y, multi_output_inverse_transform_y          *)
(* and of the notebook cells that call them.                             *)
(*                                                                       *)
(* Arrays are objects on a heap: `mem` is the sequence of allocated      *)
(* buffers and an array is a descriptor (type, base buffer, shape,       *)
(* strides in elements).  A numpy view is a second descriptor on the     *)
(* same base buffer.  Indices of rows, columns and flat positions are    *)
(* 0-based as in Python; buffers are TLA+ sequences, so element t of a   *)
(* buffer b is b[t + 1].                                                  *)
(*************************************************************************)
EXTENDS Integers, Sequences, FiniteSets, TLC

\* Largest number of entries of an input array (n*f, n*k or len(y_pred)).
MaxCells == 4

\* Largest number of entries of an array of the notebook's data sets.
MaxDataCells == 3

\* The values an array entry takes.
Val == {0, 1}

VARIABLES
    mem,                    \* the heap: buffer id -> buffer
    X_train,                \* feature matrix handed to the transform
    y_train,                \* target matrix handed to the transform
    X_train_transformed,    \* X' returned by multi_output_transform_x_y
    y_train_transformed,    \* y' returned by multi_output_transform_x_y
    number_of_columns_y,    \* the k handed to the inverse transform
    fitted_model,           \* the predictor returned by the training service
    X_test,                 \* feature matrix to predict for
    X_test_transformed,     \* multi_output_transformer_x(X_test, k)
    y_predict,              \* the flat vector handed to the inverse transform
    Y_pred,                 \* the matrix the inverse transform returns
    exc,                    \* the exception the last call raised, or "none"
    pc                      \* the caller's position

vars == <<mem, X_train, y_train, X_train_transformed, y_train_transformed,
          number_of_columns_y, fitted_model, X_test, X_test_transformed,
          y_predict, Y_pred, exc, pc>>

--------------------------------------------------------------------------
(* Objects *)

None == [type |-> "None"]

Array(t, b, sh, st) == [type |-> t, base |-> b, shape |-> sh, strides |-> st]

\* Python's a.shape[0] and a.shape[1].
Rows(a) == a.shape[1]
Cols(a) == a.shape[2]

\* A dense value, what a numpy call computes before it is stored, is a record
\* [shape |-> <<r, c>>, at |-> [i \in 0..r-1 |-> [j \in 0..c-1 |-> value]]].
\* A sparse value is a record [shape |-> <<r, c>>, coo |-> triples <<i, j, v>>].

\* Row-major (C order) buffer of a dense value.
CBuffer(D) ==
    [t \in 1..(D.shape[1] * D.shape[2]) |->
        D.at[(t - 1) \div D.shape[2]][(t - 1) % D.shape[2]]]

\* Column-major (Fortran order) buffer of a dense value.
FBuffer(D) ==
    [t \in 1..(D.shape[1] * D.shape[2]) |->
        D.at[(t - 1) % D.shape[1]][(t - 1) \div D.shape[1]]]

\* The element of buffer-backed 2-D array a at (i, j), and of 1-D array a at t.
At2(m, a, i, j) == m[a.base][1 + i * a.strides[1] + j * a.strides[2]]
At1(m, a, t) == m[a.base][1 + t * a.strides[1]]

RECURSIVE SumV(_)
SumV(s) == IF s = <<>> THEN 0 ELSE Head(s)[3] + SumV(Tail(s))

\* Entry (i, j) of a COO triple list: duplicates add up, absent entries are 0.
CooAt(coo, i, j) ==
    SumV(SelectSeq(coo, LAMBDA e : e[1] = i /\ e[2] = j))

\* Entry (i, j) of a matrix object, whatever its representation.
Entry(m, a, i, j) ==
    IF a.type = "sparse" THEN CooAt(m[a.base], i, j) ELSE At2(m, a, i, j)

--------------------------------------------------------------------------
(* The heap *)

\* A fresh buffer holding buf: the new heap and the buffer's id.
Alloc(m, buf) == [mem |-> Append(m, buf), base |-> Len(m) + 1]

\* What a call hands back: the heap after it, and a value or an exception.
Return(m, v) == [mem |-> m, ret |-> v, exc |-> "none"]
Raise(m, e) == [mem |-> m, ret |-> None, exc |-> e]

\* numpy stores a freshly computed 2-D array C-contiguous.
NewNdarray(m, D) ==
    LET a == Alloc(m, CBuffer(D))
    IN  Return(a.mem,
               Array("ndarray", a.base, D.shape, <<D.shape[2], 1>>))

\* scipy stores a freshly built sparse matrix in its own index/data arrays.
NewSparse(m, S) ==
    LET a == Alloc(m, S.coo)
    IN  Return(a.mem, Array("sparse", a.base, S.shape, <<0, 0>>))

\* np.asarray / todense of a stored matrix object.
ReadDense(m, a) ==
    [shape |-> a.shape,
     at |-> [i \in 0..(Rows(a) - 1) |->
                [j \in 0..(Cols(a) - 1) |-> Entry(m, a, i, j)]]]

ReadSparse(m, a) == [shape |-> a.shape, coo |-> m[a.base]]

--------------------------------------------------------------------------
(* numpy and scipy calls used by the transformer functions *)

\* np.ones((r, c))
np_ones(r, c) ==
    [shape |-> <<r, c>>,
     at |-> [i \in 0..(r - 1) |-> [j \in 0..(c - 1) |-> 1]]]

RECURSIVE SumRows(_, _)
SumRows(blocks, b) ==
    IF b = 0 THEN 0 ELSE blocks[b].shape[1] + SumRows(blocks, b - 1)

RECURSIVE SumCols(_, _)
SumCols(blocks, b) ==
    IF b = 0 THEN 0 ELSE blocks[b].shape[2] + SumCols(blocks, b - 1)

\* scipy.linalg.block_diag(*blocks) for blocks of one common shape, as the
\* transformer passes them: block b sits below and to the right of the
\* blocks before it; everything off the diagonal is 0.
linalg_block_diag(blocks) ==
    LET nb == Len(blocks)
        r0 == IF nb = 0 THEN 0 ELSE blocks[1].shape[1]
        c0 == IF nb = 0 THEN 0 ELSE blocks[1].shape[2]
    IN  [shape |-> <<nb * r0, nb * c0>>,
         at |-> [i \in 0..(nb * r0 - 1) |->
                    [j \in 0..(nb * c0 - 1) |->
                        IF i \div r0 = j \div c0
                        THEN blocks[(i \div r0) + 1].at[i % r0][j % c0]
                        ELSE 0]]]

\* [block] * count : a Python list holding the same object count times.
ListRepeat(block, count) == [b \in 1..count |-> block]

\* np.tile(S, reps) of a scipy sparse matrix: numpy cannot look inside S and
\* wraps it as one object, so the result is an object array holding S reps
\* times.
np_tile_object(S, reps) == [b \in 1..reps |-> S]

\* np.repeat in place of np.tile: every row and column repeated in place,
\* so the copies of X interleave instead of following one another.
np_tile_repeating(A, reps0, reps1) ==
    [shape |-> <<A.shape[1] * reps0, A.shape[2] * reps1>>,
     at |-> [i \in 0..(A.shape[1] * reps0 - 1) |->
                [j \in 0..(A.shape[2] * reps1 - 1) |->
                    A.at[i \div reps0][j \div reps1]]]]

\* np.tile(A, (reps0, reps1)) of a 2-D dense value.
np_tile(A, reps0, reps1) ==
    LET r == A.shape[1]
        c == A.shape[2]
    IN  [shape |-> <<r * reps0, c * reps1>>,
         at |-> [i \in 0..(r * reps0 - 1) |->
                    [j \in 0..(c * reps1 - 1) |-> A.at[i % r][j % c]]]]

\* np.hstack((A, B)) of two 2-D dense values with the same number of rows.
np_hstack(A, B) ==
    LET r  == A.shape[1]
        ca == A.shape[2]
        cb == B.shape[2]
    IN  [shape |-> <<r, ca + cb>>,
         at |-> [i \in 0..(r - 1) |->
                    [j \in 0..(ca + cb - 1) |->
                        IF j < ca THEN A.at[i][j] ELSE B.at[i][j - ca]]]]

\* sparse.coo_matrix(D): the nonzero entries of a dense value, row by row.
sparse_coo_matrix(D) ==
    LET c   == D.shape[2]
        all == [t \in 1..(D.shape[1] * c) |->
                   <<(t - 1) \div c, (t - 1) % c,
                     D.at[(t - 1) \div c][(t - 1) % c]>>]
    IN  [shape |-> D.shape, coo |-> SelectSeq(all, LAMBDA e : e[3] # 0)]

\* The triples of S moved down by dr rows and right by dc columns.
Shifted(S, dr, dc) ==
    [t \in 1..Len(S.coo) |->
        <<S.coo[t][1] + dr, S.coo[t][2] + dc, S.coo[t][3]>>]

\* sparse.vstack without the row offsets: every block lands on the first.
sparse_vstack_overlaid(blocks) ==
    [shape |-> <<SumRows(blocks, Len(blocks)), blocks[1].shape[2]>>,
     coo |-> IF Len(blocks) = 0 THEN <<>>
             ELSE [t \in 1..(Len(blocks) * Len(blocks[1].coo)) |->
                      blocks[1].coo[((t - 1) % Len(blocks[1].coo)) + 1]]]

RECURSIVE VstackCoo(_, _)
VstackCoo(blocks, b) ==
    IF b = 0 THEN <<>>
    ELSE VstackCoo(blocks, b - 1)
            \o Shifted(blocks[b], SumRows(blocks, b - 1), 0)

\* sparse.vstack(blocks): the blocks one below the other.
sparse_vstack(blocks) ==
    [shape |-> <<SumRows(blocks, Len(blocks)), blocks[1].shape[2]>>,
     coo |-> VstackCoo(blocks, Len(blocks))]

RECURSIVE HstackCoo(_, _)
HstackCoo(blocks, b) ==
    IF b = 0 THEN <<>>
    ELSE HstackCoo(blocks, b - 1)
            \o Shifted(blocks[b], 0, SumCols(blocks, b - 1))

\* sparse.hstack(blocks): the blocks side by side.
sparse_hstack(blocks) ==
    [shape |-> <<blocks[1].shape[1], SumCols(blocks, Len(blocks))>>,
     coo |-> HstackCoo(blocks, Len(blocks))]

\* sparse.issparse(X)
sparse_issparse(a) == a.type = "sparse"

\* A shape read only from numpy arrays and scipy matrices.
HasShapeArraysOnly(a) == a.type \in {"ndarray", "sparse"}

\* Whether the object has a .shape attribute (a Python list has none).
HasShape(a) == a.type \in {"ndarray", "sparse", "DataFrame"}

\* Whether a 2-D array can be read in Fortran order as one strided run, so
\* that ndarray.reshape(-1, order="F") returns a view instead of a copy:
\* axes of length 1 are ignored, and the column stride must continue the
\* row stride.
FlatViewF(a) ==
    \/ Rows(a) = 1
    \/ Cols(a) = 1
    \/ a.strides[2] = a.strides[1] * Rows(a)

\* y.reshape(-1) with the default order: the entries row by row.
reshape_flat_C(m, a) ==
    LET n   == Rows(a)
        k   == Cols(a)
        new == Alloc(m, [t \in 1..(n * k) |->
                            At2(m, a, (t - 1) \div k, (t - 1) % k)])
    IN  Return(new.mem, Array("ndarray", new.base, <<n * k>>, <<1>>))

\* y.reshape(-1, order="F") that always copies, whatever the layout of y.
reshape_flat_F_copy(m, a) ==
    LET n   == Rows(a)
        k   == Cols(a)
        new == Alloc(m, [t \in 1..(n * k) |->
                            At2(m, a, (t - 1) % n, (t - 1) \div n)])
    IN  Return(new.mem, Array("ndarray", new.base, <<n * k>>, <<1>>))

\* y.reshape(-1, order="F") of a 2-D ndarray: a 1-D array of the entries in
\* column-major order; a view on y's buffer when the layout allows it, else
\* a fresh copy.
reshape_flat_F(m, a) ==
    LET n == Rows(a)
        k == Cols(a)
    IN  IF FlatViewF(a)
        THEN Return(m, Array("ndarray", a.base, <<n * k>>,
                             <<IF n > 1 THEN a.strides[1]
                               ELSE IF k > 1 THEN a.strides[2] ELSE 1>>))
        ELSE LET new == Alloc(m, [t \in 1..(n * k) |->
                                    At2(m, a, (t - 1) % n, (t - 1) \div n)])
             IN  Return(new.mem,
                        Array("ndarray", new.base, <<n * k>>, <<1>>))

\* y.reshape((k, -1), order="F"): the two dimensions exchanged.
reshape_2d_F_exchanged(m, a, k) ==
    LET L == a.shape[1]
    IN  IF L % k # 0
        THEN Raise(m, "ValueError")
        ELSE Return(m, Array("ndarray", a.base, <<k, L \div k>>,
                             <<a.strides[1], a.strides[1] * k>>))

\* A reshape that drops the entries past the last full row instead of
\* raising.
reshape_2d_F_truncating(m, a, k) ==
    LET L == a.shape[1]
    IN  Return(m, Array("ndarray", a.base, <<L \div k, k>>,
                        <<a.strides[1], a.strides[1] * (L \div k)>>))

\* y.reshape((-1, k), order="F") of a 1-D ndarray: ValueError unless k
\* divides the length; else a view on y's buffer with len(y)/k rows, whose
\* entry (i, j) is element j*rows + i of y.
reshape_2d_F(m, a, k) ==
    LET L == a.shape[1]
    IN  IF L % k # 0
        THEN Raise(m, "ValueError")
        ELSE Return(m, Array("ndarray", a.base, <<L \div k, k>>,
                             <<a.strides[1], a.strides[1] * (L \div k)>>))

--------------------------------------------------------------------------
(* The transformer functions *)

\* def multi_output_transformer_x(X, number_of_columns_y)
multi_output_transformer_x(m, X, k) ==
    IF ~HasShape(X)
    THEN Raise(m, "AttributeError")
    ELSE
      LET indicator_vecs ==
              linalg_block_diag(ListRepeat(np_ones(Rows(X), 1), k))
      IN  IF sparse_issparse(X)
          THEN NewSparse(m,
                   sparse_hstack(
                       <<sparse_vstack(np_tile_object(ReadSparse(m, X), k)),
                         sparse_coo_matrix(indicator_vecs)>>))
          ELSE NewNdarray(m,
                   np_hstack(np_tile(ReadDense(m, X), k, 1),
                             indicator_vecs))

\* def multi_output_transform_y(y)
multi_output_transform_y(m, y) == reshape_flat_F(m, y)

\* The inverse transform without order = "F": the matrix is filled row by
\* row.
multi_output_inverse_transform_y_C(m, y, k) ==
    LET L == y.shape[1]
    IN  IF L % k # 0
        THEN Raise(m, "ValueError")
        ELSE Return(m, Array("ndarray", y.base, <<L \div k, k>>,
                             <<y.strides[1] * k, y.strides[1]>>))

\* def multi_output_inverse_transform_y(y, number_of_columns_y)
multi_output_inverse_transform_y(m, y, k) == reshape_2d_F(m, y, k)

\* def multi_output_transform_x_y(X, y): the pair (X_new, y_new), or the
\* exception of the first call that raises.
multi_output_transform_x_y(m, X, y) ==
    LET rx == multi_output_transformer_x(m, X, Cols(y))
        ry == multi_output_transform_y(rx.mem, y)
    IN  IF rx.exc # "none" THEN rx
        ELSE IF ry.exc # "none" THEN ry
        ELSE Return(ry.mem, [type |-> "tuple", X_new |-> rx.ret,
                             y_new |-> ry.ret])

--------------------------------------------------------------------------
(* Inputs *)

\* The shapes (rows, columns) of the 2-D arrays of at most cells entries.
Shapes(cells) ==
    {sh \in (1..cells) \X (1..cells) : sh[1] * sh[2] <= cells}

\* The shapes of the 2-D inputs of a caller, and of the notebook's data.
InputShapes == Shapes(MaxCells)

DataShapes == Shapes(MaxDataCells)

\* Every dense value of a shape.
DenseValues(sh) ==
    {[shape |-> sh, at |-> f] :
        f \in [0..(sh[1] - 1) -> [0..(sh[2] - 1) -> Val]]}

\* What the caller may hand in as X: a numpy array, a scipy sparse matrix,
\* another array-like with a shape (a pandas DataFrame), or a list of lists.
FeatureTypes == {"ndarray", "sparse", "DataFrame", "list"}

\* The buffer of a feature matrix of type t holding D, and its descriptor.
FeatureBuffer(t, D) ==
    IF t = "sparse" THEN sparse_coo_matrix(D).coo ELSE CBuffer(D)

FeatureArray(t, b, D) ==
    Array(t, b, D.shape, IF t = "sparse" THEN <<0, 0>> ELSE <<D.shape[2], 1>>)

\* The memory layouts of a contiguous 2-D ndarray: C (row-major) and
\* F (column-major, as the .T of a row-major array).
Layouts == {"C", "F"}

TargetBuffer(o, D) == IF o = "F" THEN FBuffer(D) ELSE CBuffer(D)

TargetArray(o, b, D) ==
    Array("ndarray", b, D.shape,
          IF o = "F" THEN <<1, D.shape[1]>> ELSE <<D.shape[2], 1>>)

\* Every flat vector of a length.
FlatValues(L) == [1..L -> Val]

--------------------------------------------------------------------------
(* A caller of the transformer functions *)

\* A caller about to transform some X and y.
InitTransform ==
    \E shx \in InputShapes, shy \in InputShapes :
      \E DX \in DenseValues(shx), DY \in DenseValues(shy) :
        \E t \in FeatureTypes, o \in Layouts :
          /\ mem = <<FeatureBuffer(t, DX), TargetBuffer(o, DY)>>
          /\ X_train = FeatureArray(t, 1, DX)
          /\ y_train = TargetArray(o, 2, DY)
          /\ number_of_columns_y = shy[2]
          /\ y_predict = None
          /\ X_test = None
          /\ pc = "start_transform"

\* A caller about to inverse-transform some flat vector with some k.
InitInverse ==
    \E L \in 0..MaxCells, k \in 1..MaxCells :
      \E buf \in FlatValues(L) :
        /\ mem = <<buf>>
        /\ X_train = None
        /\ y_train = None
        /\ number_of_columns_y = k
        /\ y_predict = Array("ndarray", 1, <<L>>, <<1>>)
        /\ X_test = None
        /\ pc = "start_inverse"

\* Nothing has been computed yet.
NoOutputs ==
    /\ X_train_transformed = None
    /\ y_train_transformed = None
    /\ fitted_model = None
    /\ X_test_transformed = None
    /\ Y_pred = None
    /\ exc = "none"

Init == (InitTransform \/ InitInverse) /\ NoOutputs

\* X_new, y_new = multi_output_transform_x_y(X, y)
TransformXY ==
    /\ pc = "start_transform"
    /\ \E r \in {multi_output_transform_x_y(mem, X_train, y_train)} :
           /\ mem' = r.mem
           /\ exc' = r.exc
           /\ X_train_transformed' =
                  IF r.exc = "none" THEN r.ret.X_new ELSE None
           /\ y_train_transformed' =
                  IF r.exc = "none" THEN r.ret.y_new ELSE None
           /\ pc' = IF r.exc = "none" THEN "transformed"
                    ELSE "transform_raised"
    /\ UNCHANGED <<X_train, y_train, number_of_columns_y, fitted_model,
                   X_test, X_test_transformed, y_predict, Y_pred>>

\* multi_output_inverse_transform_y(y_new, y.shape[1]) on the y_new just
\* returned: the round trip.
RoundTrip ==
    /\ pc = "transformed"
    /\ \E r \in {multi_output_inverse_transform_y(
                    mem, y_train_transformed, Cols(y_train))} :
           /\ mem' = r.mem
           /\ exc' = r.exc
           /\ Y_pred' = r.ret
           /\ pc' = IF r.exc = "none" THEN "round_tripped"
                    ELSE "round_trip_raised"
    /\ UNCHANGED <<X_train, y_train, X_train_transformed,
                   y_train_transformed, number_of_columns_y, fitted_model,
                   X_test, X_test_transformed, y_predict>>

\* multi_output_inverse_transform_y(y_pred, k) on the caller's flat vector.
InverseY ==
    /\ pc = "start_inverse"
    /\ \E r \in {multi_output_inverse_transform_y(
                    mem, y_predict, number_of_columns_y)} :
           /\ mem' = r.mem
           /\ exc' = r.exc
           /\ Y_pred' = r.ret
           /\ pc' = IF r.exc = "none" THEN "inverted" ELSE "inverse_raised"
    /\ UNCHANGED <<X_train, y_train, X_train_transformed,
                   y_train_transformed, number_of_columns_y, fitted_model,
                   X_test, X_test_transformed, y_predict>>

Next == TransformXY \/ RoundTrip \/ InverseY

Spec == Init /\ [][Next]_vars

--------------------------------------------------------------------------
(* Properties of the transform *)

\* multi_output_transform_x_y has returned its pair to the caller.
Returned == X_train_transformed.type # "None"

\* The one-hot vector of length k with 1 at position j, at position c.
OneHot(j, c) == IF c = j THEN 1 ELSE 0

\* X_new is X stacked k times with the indicator block appended.
StackedWithIndicators(m, X_new, X, k) ==
    LET n == Rows(X)
        f == Cols(X)
    IN  /\ X_new.shape = <<n * k, f + k>>
        /\ \A j \in 0..(k - 1), i \in 0..(n - 1) :
              /\ \A c \in 0..(f - 1) :
                    Entry(m, X_new, j * n + i, c) = Entry(m, X, i, c)
              /\ \A c \in 0..(k - 1) :
                    Entry(m, X_new, j * n + i, f + c) = OneHot(j, c)

\* C1: for X with n rows and f columns and Y with n rows and k columns, the
\* returned X' has n*k rows and f+k columns, and its row j*n+i is row i of X
\* followed by the one-hot vector of length k with 1 at position j.
C1_StackedFeatureMatrix ==
    (Returned /\ Rows(X_train) = Rows(y_train))
        => StackedWithIndicators(mem, X_train_transformed, X_train,
                                 Cols(y_train))

\* A 2 x 2 X and a 2 x 2 Y have been transformed; the last row of X' ends
\* with the indicator of output 1.
C1_Witness ==
    /\ pc = "transformed"
    /\ X_train.shape = <<2, 2>>
    /\ y_train.shape = <<2, 2>>
    /\ Entry(mem, X_train, 1, 0) = 1
    /\ Entry(mem, X_train, 0, 0) = 0
    /\ X_train_transformed.shape = <<4, 4>>
    /\ Entry(mem, X_train_transformed, 3, 3) = 1

\* C2: the returned y' has length n*k and is the column-major flattening
\* of Y: y'[j*n + i] = Y[i][j].
C2_ColumnMajorFlattening ==
    Returned =>
        LET n == Rows(y_train)
            k == Cols(y_train)
        IN  /\ y_train_transformed.shape = <<n * k>>
            /\ \A i \in 0..(n - 1), j \in 0..(k - 1) :
                  At1(mem, y_train_transformed, j * n + i)
                      = At2(mem, y_train, i, j)

\* A row-major 2 x 2 Y whose row-major and column-major orders differ has
\* been flattened.
C2_Witness ==
    /\ pc = "transformed"
    /\ y_train.shape = <<2, 2>>
    /\ y_train.strides = <<2, 1>>
    /\ At2(mem, y_train, 0, 1) = 1
    /\ At2(mem, y_train, 1, 0) = 0
    /\ At1(mem, y_train_transformed, 2) = 1

\* C3: the inverse transform with the same k, applied to the y' the forward
\* transform returned, succeeds and returns a matrix of Y's shape equal to Y
\* entry for entry.
C3_RoundTrip ==
    /\ pc # "round_trip_raised"
    /\ pc = "round_tripped" =>
          /\ Y_pred.shape = y_train.shape
          /\ \A i \in 0..(Rows(y_train) - 1), j \in 0..(Cols(y_train) - 1) :
                At2(mem, Y_pred, i, j) = At2(mem, y_train, i, j)

\* A 2 x 2 Y that is not symmetric has gone through the round trip.
C3_Witness ==
    /\ pc = "round_tripped"
    /\ y_train.shape = <<2, 2>>
    /\ At2(mem, y_train, 0, 1) = 1
    /\ At2(mem, y_train, 1, 0) = 0
    /\ At2(mem, Y_pred, 0, 1) = 1

\* C4: for a flat y_pred whose length L is divisible by k, the inverse
\* transform returns a matrix with L/k rows and k columns whose entry (i, j)
\* is y_pred[j*(L/k) + i].
C4_ColumnMajorUnflattening ==
    LET L == y_predict.shape[1]
        k == number_of_columns_y
        n == L \div k
    IN  (pc \in {"inverted", "inverse_raised"} /\ L % k = 0) =>
            /\ pc = "inverted"
            /\ Y_pred.shape = <<n, k>>
            /\ \A i \in 0..(n - 1), j \in 0..(k - 1) :
                  At2(mem, Y_pred, i, j) = At1(mem, y_predict, j * n + i)

\* A vector of length 4 has been unflattened into 2 columns of 2.
C4_Witness ==
    /\ pc = "inverted"
    /\ y_predict.shape = <<4>>
    /\ number_of_columns_y = 2
    /\ At1(mem, y_predict, 1) = 0
    /\ At1(mem, y_predict, 2) = 1
    /\ At2(mem, Y_pred, 0, 1) = 1

\* C5: the forward transform fails, returning no pair, whenever X and Y
\* differ in their number of rows, and never returns an X' whose row count
\* differs from the length of y'.
C5_RowMismatchRaises ==
    /\ (pc # "start_transform" /\ X_train.type # "None"
            /\ Rows(X_train) # Rows(y_train))
          => (exc # "none" /\ ~Returned)
    /\ Returned => Rows(X_train_transformed) = y_train_transformed.shape[1]

\* C6: the inverse transform raises a shape error (numpy's ValueError) and
\* returns nothing whenever k does not divide the length of y_pred; it
\* returns a matrix only when k divides the length.
C6_IndivisibleLengthRaises ==
    LET L == y_predict.shape[1]
        k == number_of_columns_y
    IN  /\ (pc \in {"inverted", "inverse_raised"} /\ L % k # 0) =>
              /\ pc = "inverse_raised"
              /\ exc = "ValueError"
              /\ Y_pred = None
        /\ pc = "inverted" => (L % k = 0 /\ exc = "none")

\* A vector of length 3 was refused for k = 2.
C6_Witness ==
    /\ pc = "inverse_raised"
    /\ y_predict.shape = <<3>>
    /\ number_of_columns_y = 2
    /\ exc = "ValueError"

\* The dense equivalent of the caller's X and y on a heap of its own: the
\* same entries, X stored as a C-contiguous ndarray.
DenseEquivalentHeap == <<CBuffer(ReadDense(mem, X_train)), mem[y_train.base]>>

DenseEquivalentX ==
    Array("ndarray", 1, X_train.shape, <<Cols(X_train), 1>>)

DenseEquivalentY == [y_train EXCEPT !.base = 2]

\* C7: the forward transform of a sparse X and of its dense equivalent
\* return the same X' (same shape, same value at every position) and the
\* same y'.
C7_SparseDenseEquivalence ==
    (Returned /\ X_train.type = "sparse") =>
        \E d \in {multi_output_transform_x_y(
                      DenseEquivalentHeap, DenseEquivalentX,
                      DenseEquivalentY)} :
          /\ d.exc = "none"
          /\ d.ret.X_new.type = "ndarray"
          /\ X_train_transformed.type = "sparse"
          /\ d.ret.X_new.shape = X_train_transformed.shape
          /\ \A i \in 0..(Rows(X_train_transformed) - 1),
                j \in 0..(Cols(X_train_transformed) - 1) :
                At2(d.mem, d.ret.X_new, i, j)
                    = CooAt(mem[X_train_transformed.base], i, j)
          /\ d.ret.y_new.shape = y_train_transformed.shape
          /\ \A t \in 0..(y_train_transformed.shape[1] - 1) :
                At1(d.mem, d.ret.y_new, t) = At1(mem, y_train_transformed, t)

\* A sparse 2 x 2 X with a zero and a nonzero entry has been transformed
\* for k = 2.
C7_Witness ==
    /\ pc = "transformed"
    /\ X_train.type = "sparse"
    /\ X_train.shape = <<2, 2>>
    /\ y_train.shape = <<2, 2>>
    /\ Len(mem[X_train.base]) = 2
    /\ CooAt(mem[X_train.base], 1, 0) = 1
    /\ CooAt(mem[X_train_transformed.base], 3, 0) = 1
    /\ CooAt(mem[X_train_transformed.base], 2, 0) = 0

\* The representations of X that are neither a numpy array nor a scipy
\* sparse matrix.
UnsupportedTypes == {"DataFrame", "list"}

\* C8: the forward transform fails with a TypeError and returns nothing
\* whenever X is in an unsupported representation; such an X is never
\* processed by the dense or the sparse code path.
C8_UnsupportedRaisesTypeError ==
    (pc # "start_transform" /\ X_train.type \in UnsupportedTypes)
        => (exc = "TypeError" /\ ~Returned)

\* C8 as the code has it: the transform makes no representation check and
\* never raises TypeError.  An X without a shape attribute fails with
\* AttributeError and nothing is returned; every other X that is not scipy
\* sparse goes down the dense path, which returns the stacked ndarray.
C8_DuckTypedDispatch ==
    /\ exc # "TypeError"
    /\ (pc # "start_transform" /\ X_train.type = "list") =>
          /\ pc = "transform_raised"
          /\ exc = "AttributeError"
          /\ ~Returned
          /\ y_train_transformed = None
    /\ (pc # "start_transform" /\ X_train.type = "DataFrame") =>
          /\ Returned
          /\ X_train_transformed.type = "ndarray"
          /\ StackedWithIndicators(mem, X_train_transformed, X_train,
                                   Cols(y_train))

\* A 2 x 2 DataFrame X has been transformed by the dense path for k = 2.
C8_Witness ==
    /\ pc = "transformed"
    /\ X_train.type = "DataFrame"
    /\ X_train.shape = <<2, 2>>
    /\ Cols(y_train) = 2
    /\ Entry(mem, X_train, 1, 1) = 1
    /\ X_train_transformed.type = "ndarray"
    /\ Entry(mem, X_train_transformed, 3, 1) = 1

--------------------------------------------------------------------------
(* A caller of the single functions who afterwards writes to an array *)

\* A caller about to stack some X for some k (as the predict cell does).
InitTransformerX ==
    \E shx \in InputShapes :
      \E DX \in DenseValues(shx), t \in FeatureTypes :
        \E k \in {c \in 1..MaxCells : shx[1] * c <= MaxCells} :
          /\ mem = <<FeatureBuffer(t, DX)>>
          /\ X_train = None
          /\ y_train = None
          /\ number_of_columns_y = k
          /\ y_predict = None
          /\ X_test = FeatureArray(t, 1, DX)
          /\ pc = "start_transformer_x"

\* A caller about to flatten some y.
InitTransformY ==
    \E shy \in InputShapes :
      \E DY \in DenseValues(shy), o \in Layouts :
        /\ mem = <<TargetBuffer(o, DY)>>
        /\ X_train = None
        /\ y_train = TargetArray(o, 1, DY)
        /\ number_of_columns_y = shy[2]
        /\ y_predict = None
        /\ X_test = None
        /\ pc = "start_transform_y"

InitAlias ==
    (InitTransformerX \/ InitTransformY \/ InitInverse) /\ NoOutputs

\* X_new = multi_output_transformer_x(X, k)
TransformerX ==
    /\ pc = "start_transformer_x"
    /\ \E r \in {multi_output_transformer_x(
                      mem, X_test, number_of_columns_y)} :
           /\ mem' = r.mem
           /\ exc' = r.exc
           /\ X_test_transformed' = r.ret
           /\ pc' = IF r.exc = "none" THEN "x_transformed" ELSE "x_raised"
    /\ UNCHANGED <<X_train, y_train, X_train_transformed,
                   y_train_transformed, number_of_columns_y, fitted_model,
                   X_test, y_predict, Y_pred>>

\* y_new = multi_output_transform_y(y)
TransformY ==
    /\ pc = "start_transform_y"
    /\ \E r \in {multi_output_transform_y(mem, y_train)} :
           /\ mem' = r.mem
           /\ exc' = r.exc
           /\ y_train_transformed' = r.ret
           /\ pc' = IF r.exc = "none" THEN "y_transformed" ELSE "y_raised"
    /\ UNCHANGED <<X_train, y_train, X_train_transformed,
                   number_of_columns_y, fitted_model, X_test,
                   X_test_transformed, y_predict, Y_pred>>

\* The argument and the result of the call that has just returned.
CallInput ==
    CASE pc = "x_transformed" -> X_test
      [] pc = "y_transformed" -> y_train
      [] pc = "inverted" -> y_predict
      [] OTHER -> None

CallOutput ==
    CASE pc = "x_transformed" -> X_test_transformed
      [] pc = "y_transformed" -> y_train_transformed
      [] pc = "inverted" -> Y_pred
      [] OTHER -> None

\* The places of its buffer that an array addresses: the elements of an
\* ndarray, the data entries of a sparse matrix.
Offsets(m, a) ==
    IF a.type = "None" THEN {}
    ELSE IF a.type = "sparse" THEN 1..Len(m[a.base])
    ELSE IF Len(a.shape) = 1
         THEN {1 + t * a.strides[1] : t \in 0..(a.shape[1] - 1)}
         ELSE {1 + i * a.strides[1] + j * a.strides[2] :
                  i \in 0..(Rows(a) - 1), j \in 0..(Cols(a) - 1)}

\* The value stored at a place of an array's buffer, and the heap after
\* storing v there.
Stored(m, a, off) ==
    IF a.type = "sparse" THEN m[a.base][off][3] ELSE m[a.base][off]

Store(m, a, off, v) ==
    [m EXCEPT ![a.base][off] =
        IF a.type = "sparse" THEN <<@[1], @[2], v>> ELSE v]

\* Everything that can be read through an array.
Contents(m, a) ==
    IF a.type = "None" THEN <<>>
    ELSE IF Len(a.shape) = 1
         THEN [t \in 0..(a.shape[1] - 1) |-> At1(m, a, t)]
         ELSE [i \in 0..(Rows(a) - 1) |->
                  [j \in 0..(Cols(a) - 1) |-> Entry(m, a, i, j)]]

\* The caller assigns to one element of the array a.
WriteThrough(a, to) ==
    /\ a.type # "None"
    /\ \E off \in Offsets(mem, a), v \in Val :
          /\ v # Stored(mem, a, off)
          /\ mem' = Store(mem, a, off, v)
    /\ pc' = to
    /\ UNCHANGED <<X_train, y_train, X_train_transformed,
                   y_train_transformed, number_of_columns_y, fitted_model,
                   X_test, X_test_transformed, y_predict, Y_pred, exc>>

\* The caller assigns to an element of the array a call returned.
WriteOutput == WriteThrough(CallOutput, "wrote_output")

\* The caller assigns to an element of the array it handed to a call.
WriteInput ==
    /\ CallOutput.type # "None"
    /\ WriteThrough(CallInput, "wrote_input")

NextAlias ==
    TransformerX \/ TransformY \/ InverseY \/ WriteOutput \/ WriteInput

SpecAlias == InitAlias /\ [][NextAlias]_vars

\* A step that is a call of a transformer function leaves every array the
\* caller handed in with the contents it had.
CallKeepsInputs ==
    pc \in {"start_transformer_x", "start_transform_y", "start_inverse"} =>
        /\ Contents(mem', X_test) = Contents(mem, X_test)
        /\ Contents(mem', y_train) = Contents(mem, y_train)
        /\ Contents(mem', y_predict) = Contents(mem, y_predict)

\* What the step changed of what is read through the other array: the
\* input for a write to the output, the output for a write to the input.
OtherChanged ==
    IF pc' = "wrote_output"
    THEN Contents(mem', CallInput) # Contents(mem, CallInput)
    ELSE Contents(mem', CallOutput) # Contents(mem, CallOutput)

IsWrite == pc' \in {"wrote_output", "wrote_input"}

\* C9: every call leaves its inputs unchanged, and the returned arrays share
\* no storage with any input: a later write to an output is never visible
\* through the input, nor a write to an input through the output.
C9_FreshOutputs ==
    [][/\ CallKeepsInputs
       /\ IsWrite => ~OtherChanged]_vars

\* C9 as the code has it: every call leaves its inputs unchanged and X'
\* shares no storage with X; but y' is a view on the storage of Y whenever
\* Y can be read in Fortran order as one strided run (Y Fortran-contiguous,
\* or with one row or one column), a fresh copy otherwise, and Y_pred is
\* always a view on the storage of the y_pred handed in.  A write through
\* either of two arrays that share storage is visible through the other.
C9_ViewsShareStorage ==
    [][/\ CallKeepsInputs
       /\ (IsWrite /\ pc = "x_transformed") => ~OtherChanged
       /\ (IsWrite /\ pc = "y_transformed") =>
             (OtherChanged <=> FlatViewF(y_train))
       /\ (IsWrite /\ pc = "inverted") => OtherChanged]_vars

\* The caller has written to the flattening of a Fortran-contiguous 2 x 2
\* Y, which shares the buffer of Y.
C9_Witness ==
    /\ pc = "wrote_output"
    /\ y_train.type = "ndarray"
    /\ y_train.shape = <<2, 2>>
    /\ y_train.strides = <<1, 2>>
    /\ y_train_transformed.type = "ndarray"
    /\ y_train_transformed.base = y_train.base

--------------------------------------------------------------------------
(* The notebook: transform, fit, predict, inverse transform *)

\* np.sort(..., axis = 0): every column ascends.
SortedColumns(D) ==
    \A j \in 0..(D.shape[2] - 1), i \in 1..(D.shape[1] - 1) :
        D.at[i - 1][j] <= D.at[i][j]

\* The predictors the training service may hand back.  Each maps a row of
\* the stacked feature matrix to one value: its entries read as a binary
\* number, the number of its nonzero entries, or a constant.
Predictors == {"encode", "count", "constant"}

RECURSIVE Encode(_, _)
Encode(row, c) ==
    IF c = 0 THEN 0 ELSE row[c - 1] + 2 * Encode(row, c - 1)

RECURSIVE Count(_, _)
Count(row, c) ==
    IF c = 0 THEN 0
    ELSE (IF row[c - 1] # 0 THEN 1 ELSE 0) + Count(row, c - 1)

\* The prediction of a model for one row (a function on 0..c-1).
PredictRow(model, row, c) ==
    CASE model = "encode" -> Encode(row, c)
      [] model = "count" -> Count(row, c)
      [] OTHER -> 7

\* fitted_model.predict(X): a fresh flat array, one prediction per row.
fitted_model_predict(m, model, Xt) ==
    LET D   == ReadDense(m, Xt)
        new == Alloc(m, [t \in 1..Rows(Xt) |->
                            PredictRow(model, D.at[t - 1], Cols(Xt))])
    IN  Return(new.mem, Array("ndarray", new.base, <<Rows(Xt)>>, <<1>>))

\* The predict cell with the inverse transform given the column count of
\* X_test instead of that of y_train.
predict_cell_wrong_k(m, model, Xt, ytrain) ==
    LET rx == multi_output_transformer_x(m, Xt, Cols(ytrain))
        rp == fitted_model_predict(rx.mem, model, rx.ret)
        ri == multi_output_inverse_transform_y(rp.mem, rp.ret, Cols(Xt))
    IN  IF rx.exc # "none" THEN rx
        ELSE IF ri.exc # "none" THEN ri
        ELSE Return(ri.mem, [type |-> "cell",
                             X_test_transformed |-> rx.ret,
                             y_flat |-> rp.ret,
                             y_predict |-> ri.ret])

\* The predict cell: X_test_transformed, the flat predictions, and their
\* inverse transform, each for k = y_train.shape[1].
predict_cell(m, model, Xt, ytrain) ==
    LET rx == multi_output_transformer_x(m, Xt, Cols(ytrain))
        rp == fitted_model_predict(rx.mem, model, rx.ret)
        ri == multi_output_inverse_transform_y(rp.mem, rp.ret, Cols(ytrain))
    IN  IF rx.exc # "none" THEN rx
        ELSE IF ri.exc # "none" THEN ri
        ELSE Return(ri.mem, [type |-> "cell",
                             X_test_transformed |-> rx.ret,
                             y_flat |-> rp.ret,
                             y_predict |-> ri.ret])

\* X_train sorted by column, y_train the transpose of a row-major array
\* (so Fortran-contiguous), both with the same number of rows.
InitNotebook ==
    /\ \E shx \in DataShapes, shy \in DataShapes :
         /\ shx[1] = shy[1]
         /\ \E DX \in DenseValues(shx), DY \in DenseValues(shy) :
              /\ SortedColumns(DX)
              /\ mem = <<CBuffer(DX), FBuffer(DY)>>
              /\ X_train = FeatureArray("ndarray", 1, DX)
              /\ y_train = TargetArray("F", 2, DY)
              /\ number_of_columns_y = shy[2]
    /\ y_predict = None
    /\ X_test = None
    /\ pc = "cell_transform"
    /\ NoOutputs

\* X_train_transformed, y_train_transformed =
\*     multi_output_transform_x_y(X_train, y_train)
CellTransform ==
    /\ pc = "cell_transform"
    /\ \E r \in {multi_output_transform_x_y(mem, X_train, y_train)} :
           /\ r.exc = "none"
           /\ mem' = r.mem
           /\ X_train_transformed' = r.ret.X_new
           /\ y_train_transformed' = r.ret.y_new
    /\ pc' = "cell_fit"
    /\ UNCHANGED <<X_train, y_train, number_of_columns_y, fitted_model,
                   X_test, X_test_transformed, y_predict, Y_pred, exc>>

\* AutoMLConfig(..., X = X_train_transformed, y = y_train_transformed),
\* experiment.submit, local_run.get_output: the service accepts a feature
\* matrix with one row per target and hands back some predictor.
CellFit ==
    /\ pc = "cell_fit"
    /\ Rows(X_train_transformed) = y_train_transformed.shape[1]
    /\ \E model \in Predictors : fitted_model' = [type |-> model]
    /\ pc' = "cell_generate_test"
    /\ UNCHANGED <<mem, X_train, y_train, X_train_transformed,
                   y_train_transformed, number_of_columns_y, X_test,
                   X_test_transformed, y_predict, Y_pred, exc>>

\* X_test = np.sort(...): a fresh sorted array with the columns of X_train.
CellGenerateTest ==
    /\ pc = "cell_generate_test"
    /\ \E sh \in DataShapes :
         /\ sh[2] = Cols(X_train)
         /\ \E D \in DenseValues(sh) :
              /\ SortedColumns(D)
              /\ mem' = Append(mem, CBuffer(D))
              /\ X_test' = FeatureArray("ndarray", Len(mem) + 1, D)
    /\ pc' = "cell_predict"
    /\ UNCHANGED <<X_train, y_train, X_train_transformed,
                   y_train_transformed, number_of_columns_y, fitted_model,
                   X_test_transformed, y_predict, Y_pred, exc>>

\* X_test_transformed = multi_output_transformer_x(X_test, y_train.shape[1])
\* y_predict = fitted_model.predict(X_test_transformed)
\* y_predict = multi_output_inverse_transform_y(y_predict, y_train.shape[1])
CellPredict ==
    /\ pc = "cell_predict"
    /\ \E r \in {predict_cell(mem, fitted_model.type, X_test, y_train)} :
           /\ mem' = r.mem
           /\ exc' = r.exc
           /\ X_test_transformed' =
                  IF r.exc = "none" THEN r.ret.X_test_transformed ELSE None
           /\ y_predict' = IF r.exc = "none" THEN r.ret.y_flat ELSE None
           /\ Y_pred' = IF r.exc = "none" THEN r.ret.y_predict ELSE None
           /\ pc' = IF r.exc = "none" THEN "cell_print" ELSE "cell_raised"
    /\ UNCHANGED <<X_train, y_train, X_train_transformed,
                   y_train_transformed, number_of_columns_y, fitted_model,
                   X_test>>

NextNotebook == CellTransform \/ CellFit \/ CellGenerateTest \/ CellPredict

SpecNotebook == InitNotebook /\ [][NextNotebook]_vars

\* Row j*m + i of the stacked X_test: X_test[i] followed by one-hot(j, k).
StackedTestRow(i, j) ==
    [c \in 0..(Cols(X_test) + Cols(y_train) - 1) |->
        IF c < Cols(X_test) THEN At2(mem, X_test, i, c)
        ELSE OneHot(j, c - Cols(X_test))]

\* C10: the predict cell never fails and uses the k of the training
\* transform: the transformed X_test has m*k rows and the f+k columns of the
\* training X', the prediction vector has length m*k, and the inverse
\* transform returns an m x k matrix whose entry [i][j] is the prediction
\* for [X_test[i], one-hot(j, k)], the stacked row j*m + i.
C10_PredictUsesTrainingK ==
    /\ pc # "cell_raised"
    /\ pc = "cell_print" =>
          LET k == Cols(y_train)
              m == Rows(X_test)
          IN  /\ X_test_transformed.shape = <<m * k, Cols(X_test) + k>>
              /\ Cols(X_test_transformed) = Cols(X_train_transformed)
              /\ y_predict.shape = <<m * k>>
              /\ Y_pred.shape = <<m, k>>
              /\ \A i \in 0..(m - 1), j \in 0..(k - 1) :
                    /\ At2(mem, Y_pred, i, j) =
                          PredictRow(fitted_model.type, StackedTestRow(i, j),
                                     Cols(X_test) + k)
                    /\ At2(mem, Y_pred, i, j) = At1(mem, y_predict, j * m + i)
                    /\ \A c \in 0..(Cols(X_test) + k - 1) :
                          At2(mem, X_test_transformed, j * m + i, c)
                              = StackedTestRow(i, j)[c]

\* Two test rows have been predicted for three outputs by the predictor
\* that tells the stacked rows apart, after training on one row.
C10_Witness ==
    /\ pc = "cell_print"
    /\ fitted_model.type = "encode"
    /\ X_train.shape = <<1, 1>>
    /\ y_train.shape = <<1, 3>>
    /\ X_test.shape = <<2, 1>>
    /\ At2(mem, X_test, 1, 0) = 1
    /\ Y_pred.shape = <<2, 3>>
    /\ At2(mem, Y_pred, 1, 2) = 9

=============================================================================
